---- MODULE Spec2Model ----
(***************************************************************************)
(* State-machine model of calendar.rs: the iterator adaptors of            *)
(* src/advanced_iterator.rs (Chunk, Interleave, transpose, ChainAll, join) *)
(* the date ranges of src/date.rs (DateRange, GroupBy, dates), the month   *)
(* layout of src/format.rs and the calendar pipeline of src/main.rs.       *)
(*                                                                         *)
(* An iterator object is a record tagged by the name of its Rust type;     *)
(* its other fields are the struct's fields.  Option<T> is a sequence of   *)
(* length at most one: None is <<>>, Some(v) is <<v>>.  A call of next()   *)
(* is a record [item, it, panic]: the returned Option, the object after    *)
(* the call and whether the call panicked.                                 *)
(***************************************************************************)
EXTENDS Integers, Sequences, FiniteSets, TLC

VARIABLES
    iter,    \* the iterator object the caller holds and pulls from
    input,   \* the arguments it was constructed from
    hist,    \* the Option returned by every next() call so far, in order
    panic,   \* TRUE once a call has panicked (the process is gone)
    result   \* Some(the String join() has written), None before the call

vars == <<iter, input, hist, panic, result>>

----------------------------------------------------------------------------
(* Bounds of the model. *)

MaxLen == 4         \* longest inner sequence / row
MaxChunkLen == 7    \* longest sequence handed to chunk()
MaxSize == 4        \* largest chunk size
MaxRows == 3        \* most rows of an outer sequence
MaxNone == 2        \* next() calls answered None that a run still follows
MaxItems == 3       \* most elements handed to join()
MaxDays == 5        \* longest DateRange iterated date by date
MaxSpan == 70       \* longest DateRange grouped by month
MaxWeekSpan == 24   \* longest DateRange grouped by week
MaxGroupSpan == 10  \* longest DateRange grouped by any of the keys
MaxPerLine == 5     \* most months per line of a calendar
NumCalendarYears == 28   \* years, from FirstCalendarYear on, of a calendar
NumYears == 1       \* years, from FirstYear on, a range may start in
FirstYear == 2015   \* the year of the repository's tests
FirstCalendarYear == 2010   \* the year of the four-week month of the tests

----------------------------------------------------------------------------
(* Option<T> *)

None == <<>>

Some(v) == <<v>>

IsSome(o) == o # None

Unwrap(o) == o[1]

Ret(item, it) == [item |-> item, it |-> it, panic |-> FALSE]

Panicked(it) == [item |-> None, it |-> it, panic |-> TRUE]

(* The one element of a singleton.  Only({e(x) : x \in {v}}) is e with x   *)
(* bound to the value of v: a let whose right side is computed once.       *)
Only(S) == CHOOSE x \in S : TRUE

----------------------------------------------------------------------------
(* std iterators over an owned buffer: vec::IntoIter, slice::Iter, Range.  *)

VecIter(s) == [type |-> "IntoIter", rest |-> s]

VecIterNext(self) ==
    IF self.rest = <<>>
    THEN Ret(None, self)
    ELSE Ret(Some(Head(self.rest)), [self EXCEPT !.rest = Tail(self.rest)])

----------------------------------------------------------------------------
(* AdvancedIterator::chunk and Chunk                                       *)

ChunkNew(inner, size) == [type |-> "Chunk", inner |-> inner, size |-> size]

RECURSIVE IterNext(_)
RECURSIVE TakeCollect(_, _, _)

(* self.inner.by_ref().take(n).collect::<Vec<_>>(): Take::next answers     *)
(* None without touching the inner iterator once n elements were taken,    *)
(* and collect stops at the first None.  acc holds what was taken so far.  *)
(* Mutant of TakeCollect: the element is pulled before the count is        *)
(* looked at, so at least one is taken.                                    *)
TakeCollect_PullsFirst(it, n, acc) ==
    Only({
      IF r.panic THEN [items |-> acc, it |-> r.it, panic |-> TRUE]
      ELSE IF r.item = None THEN [items |-> acc, it |-> r.it, panic |-> FALSE]
      ELSE IF n <= 1
      THEN [items |-> Append(acc, Unwrap(r.item)), it |-> r.it, panic |-> FALSE]
      ELSE TakeCollect(r.it, n - 1, Append(acc, Unwrap(r.item)))
    : r \in {IterNext(it)}})

TakeCollect(it, n, acc) ==
    IF n = 0
    THEN [items |-> acc, it |-> it, panic |-> FALSE]
    ELSE Only({
           IF r.panic
           THEN [items |-> acc, it |-> r.it, panic |-> TRUE]
           ELSE IF r.item = None
           THEN [items |-> acc, it |-> r.it, panic |-> FALSE]
           ELSE TakeCollect(r.it, n - 1, Append(acc, Unwrap(r.item)))
         : r \in {IterNext(it)}})

(* Mutant of ChunkNextFn: the drain takes one element too many. *)
ChunkNextFn_TakesOneMore(self) ==
    Only({
      IF c.panic THEN Panicked([self EXCEPT !.inner = c.it])
      ELSE IF c.items = <<>>
      THEN Ret(None, [self EXCEPT !.inner = c.it])
      ELSE Ret(Some(VecIter(c.items)), [self EXCEPT !.inner = c.it])
    : c \in {TakeCollect(self.inner, self.size + 1, <<>>)}})

ChunkNextFn(self) ==
    Only({
      IF c.panic THEN Panicked([self EXCEPT !.inner = c.it])
      ELSE IF c.items = <<>>
      THEN Ret(None, [self EXCEPT !.inner = c.it])
      ELSE Ret(Some(VecIter(c.items)), [self EXCEPT !.inner = c.it])
    : c \in {TakeCollect(self.inner, self.size, <<>>)}})

----------------------------------------------------------------------------
(* AdvancedIterator::interleave and Interleave                             *)

RECURSIVE Collect(_, _)

(* self.collect::<Vec<_>>(): pulls until the first None.  acc holds what   *)
(* was pulled so far.                                                      *)
Collect(it, acc) ==
    Only({
      IF r.panic
      THEN [items |-> acc, it |-> r.it, panic |-> TRUE]
      ELSE IF r.item = None
      THEN [items |-> acc, it |-> r.it, panic |-> FALSE]
      ELSE Collect(r.it, Append(acc, Unwrap(r.item)))
    : r \in {IterNext(it)}})

NoIter == [type |-> "Unconstructed"]

(* Mutant of InterleaveNew: the assertion is missing. *)
InterleaveNew_NoAssert(outer) ==
    Only({
      IF c.panic
      THEN Panicked(NoIter)
      ELSE Ret(None, [type |-> "Interleave", inner |-> c.items, index |-> 0])
    : c \in {Collect(outer, <<>>)}})

(* The assertion inner.len() > 0 aborts the call before any Interleave     *)
(* exists.                                                                 *)
InterleaveNew(outer) ==
    Only({
      IF c.panic \/ ~(Len(c.items) > 0)
      THEN Panicked(NoIter)
      ELSE Ret(None, [type |-> "Interleave", inner |-> c.items, index |-> 0])
    : c \in {Collect(outer, <<>>)}})

(* Mutant of InterleaveNextFn: a sequence that has run out is skipped, the  *)
(* element comes from the next one that still has some.                    *)
InterleaveNextFn_SkipsExhausted(self) ==
    LET n == Len(self.inner)
        live == {d \in 0..(n - 1) :
                   IsSome(IterNext(self.inner[((self.index + d) % n) + 1]).item)}
    IN  IF live = {}
        THEN Ret(None, [self EXCEPT !.index = (self.index + 1) % n])
        ELSE Only({
               Ret(r.item, [self EXCEPT !.inner[r.at] = r.it,
                                        !.index = r.at % n])
             : r \in {[at |-> ((self.index + d) % n) + 1,
                       item |-> IterNext(self.inner[((self.index + d) % n) + 1]).item,
                       it |-> IterNext(self.inner[((self.index + d) % n) + 1]).it]
                      : d \in {x \in live : \A y \in live : x <= y}}})

(* self.inner[self.index] is a checked index: out of range it panics.      *)
(* Interleave::next that keeps the cursor where it is when the sequence at *)
(* the cursor has nothing left.                                            *)
InterleaveNextFn_StaysOnNone(self) ==
    IF self.index >= Len(self.inner) THEN Panicked(self)
    ELSE Only({
           IF r.panic THEN Panicked([self EXCEPT !.inner[self.index + 1] = r.it])
           ELSE IF r.item = None THEN Ret(None, [self EXCEPT !.inner[self.index + 1] = r.it])
           ELSE Ret(r.item, [self EXCEPT !.inner[self.index + 1] = r.it,
                                         !.index = (self.index + 1) % Len(self.inner)])
         : r \in {IterNext(self.inner[self.index + 1])}})

InterleaveNextFn(self) ==
    IF self.index >= Len(self.inner)
    THEN Panicked(self)
    ELSE Only({
           IF r.panic
           THEN Panicked([self EXCEPT !.inner[self.index + 1] = r.it])
           ELSE Ret(r.item,
                    [self EXCEPT
                        !.inner[self.index + 1] = r.it,
                        !.index = (self.index + 1) % Len(self.inner)])
         : r \in {IterNext(self.inner[self.index + 1])}})

----------------------------------------------------------------------------
(* AdvancedIterator::transpose                                             *)

(* ExactSizeIterator::len of a buffer iterator. *)
ExactLen(it) == Len(it.rest)

(* Mutant of Transpose: the chunk size is one more than the row count. *)
Transpose_WrongLen(outer) ==
    Only({
      IF i.panic THEN Panicked(NoIter)
      ELSE Ret(None, ChunkNew(i.it, ExactLen(outer) + 1))
    : i \in {InterleaveNew(outer)}})

Transpose(outer) ==
    Only({
      IF i.panic THEN Panicked(NoIter)
      ELSE Ret(None, ChunkNew(i.it, ExactLen(outer)))
    : i \in {InterleaveNew(outer)}})

----------------------------------------------------------------------------
(* AdvancedIterator::chain_all and ChainAll                                *)

(* chain_all that pulls the first inner sequence when it is constructed.   *)
ChainAllNew_Eager(outer) ==
    Only({[type |-> "ChainAll", current |-> a.item, all |-> a.it]
          : a \in {IterNext(outer)}})

ChainAllNew(outer) == [type |-> "ChainAll", current |-> None, all |-> outer]

RECURSIVE ChainAllLoop(_, _)
RECURSIVE ChainAllMatch(_)

(* The second half of a turn of the loop: the match on self.current. *)
ChainAllMatch(self) ==
    IF self.current = None
    THEN Ret(None, self)
    ELSE Only({
           IF r.panic THEN Panicked([self EXCEPT !.current = Some(r.it)])
           ELSE IF IsSome(r.item)
           THEN Ret(r.item, [self EXCEPT !.current = Some(r.it)])
           ELSE ChainAllLoop([self EXCEPT !.current = Some(r.it)], TRUE)
         : r \in {IterNext(Unwrap(self.current))}})

(* One turn of the loop of ChainAll::next, with the value of bump. *)
ChainAllLoop(self, bump) ==
    IF bump
    THEN Only({
           IF a.panic
           THEN Panicked([self EXCEPT !.current = a.item, !.all = a.it])
           ELSE ChainAllMatch([self EXCEPT !.current = a.item, !.all = a.it])
         : a \in {IterNext(self.all)}})
    ELSE ChainAllMatch(self)

(* Mutant of ChainAllNextFn: a single check in place of the loop; after an  *)
(* exhausted inner sequence it moves on once and answers with whatever the *)
(* next one gives.                                                         *)
ChainAllNextFn_SingleCheck(self) ==
    LET a == IF self.current = None THEN IterNext(self.all)
             ELSE Ret(self.current, self.all)
        s1 == [self EXCEPT !.current = a.item, !.all = a.it]
    IN  IF s1.current = None
        THEN Ret(None, s1)
        ELSE LET r == IterNext(Unwrap(s1.current))
                 s2 == [s1 EXCEPT !.current = Some(r.it)]
             IN  IF IsSome(r.item)
                 THEN Ret(r.item, s2)
                 ELSE LET b == IterNext(s2.all)
                          s3 == [s2 EXCEPT !.current = b.item, !.all = b.it]
                      IN  IF s3.current = None
                          THEN Ret(None, s3)
                          ELSE LET q == IterNext(Unwrap(s3.current)) IN
                               Ret(q.item,
                                   [s3 EXCEPT !.current = Some(q.it)])

ChainAllNextFn(self) == ChainAllLoop(self, self.current = None)

----------------------------------------------------------------------------
(* AdvancedIterator::join.  A String is a sequence of characters; an       *)
(* element is a &str or String, or an integer, and "{}" writes a string as *)
(* it is and an integer in decimal.  A panic inside a next() call ends     *)
(* join with it.                                                           *)

Str(text) == [kind |-> "str", text |-> text]

Int_(n) == [kind |-> "int", n |-> n]

Digit(n) == <<"0", "1", "2", "3", "4", "5", "6", "7", "8", "9">>[n + 1]

RECURSIVE Decimal(_)
Decimal(n) == IF n < 10 THEN <<Digit(n)>> ELSE Decimal(n \div 10) \o <<Digit(n % 10)>>

Display(item) == IF item.kind = "str" THEN item.text ELSE Decimal(item.n)

RECURSIVE JoinLoop(_, _, _)

(* while let Some(item) = self.next() { write!(result, "{}{}", separator, item) } *)
JoinLoop(it, separator, res) ==
    Only({
      IF r.panic
      THEN [result |-> res, it |-> r.it, panic |-> TRUE]
      ELSE IF r.item = None
      THEN [result |-> res, it |-> r.it, panic |-> FALSE]
      ELSE JoinLoop(r.it, separator, res \o separator \o Display(Unwrap(r.item)))
    : r \in {IterNext(it)}})

(* Mutant of Join: the separator is written before every element, the      *)
(* first one too.                                                          *)
Join_LeadingSeparator(it, separator) == JoinLoop(it, separator, <<>>)

Join(it, separator) ==
    Only({
      IF IsSome(first.item)
      THEN JoinLoop(first.it, separator, Display(Unwrap(first.item)))
      ELSE [result |-> <<>>, it |-> first.it, panic |-> first.panic]
    : first \in {IterNext(it)}})

----------------------------------------------------------------------------
(* chrono's Date<UTC>: a year and the ordinal of the day in it, ordered by *)
(* year and then by ordinal, in the proleptic Gregorian calendar.          *)

IsLeap(y) == (y % 4 = 0 /\ y % 100 # 0) \/ y % 400 = 0

DaysInYear(y) == IF IsLeap(y) THEN 366 ELSE 365

DaysInMonth(y, m) ==
    IF m = 2 THEN (IF IsLeap(y) THEN 29 ELSE 28)
    ELSE IF m \in {4, 6, 9, 11} THEN 30 ELSE 31

(* Days of the year before the first of month m. *)
DaysBeforeMonth(y, m) ==
    <<0, 31, 59, 90, 120, 151, 181, 212, 243, 273, 304, 334>>[m]
        + (IF m > 2 /\ IsLeap(y) THEN 1 ELSE 0)

(* UTC.ymd(y, m, d) *)
Ymd(y, m, d) == [year |-> y, ordinal |-> DaysBeforeMonth(y, m) + d]

(* Date::month *)
MonthOf(date) ==
    LET f == IF IsLeap(date.year) THEN 1 ELSE 0
        o == date.ordinal
    IN  IF o <= 31 THEN 1
        ELSE IF o <= 59 + f THEN 2
        ELSE IF o <= 90 + f THEN 3
        ELSE IF o <= 120 + f THEN 4
        ELSE IF o <= 151 + f THEN 5
        ELSE IF o <= 181 + f THEN 6
        ELSE IF o <= 212 + f THEN 7
        ELSE IF o <= 243 + f THEN 8
        ELSE IF o <= 273 + f THEN 9
        ELSE IF o <= 304 + f THEN 10
        ELSE IF o <= 334 + f THEN 11
        ELSE 12

(* Date::day *)
DayOf(date) == date.ordinal - DaysBeforeMonth(date.year, MonthOf(date))

(* Date::succ *)
Succ(date) ==
    IF date.ordinal < DaysInYear(date.year)
    THEN [date EXCEPT !.ordinal = date.ordinal + 1]
    ELSE [year |-> date.year + 1, ordinal |-> 1]

RECURSIVE AddDays(_, _)

(* succ() applied k times. *)
AddDays(date, k) ==
    IF date.ordinal + k <= DaysInYear(date.year)
    THEN [date EXCEPT !.ordinal = date.ordinal + k]
    ELSE AddDays([year |-> date.year + 1, ordinal |-> 1],
                 k - (DaysInYear(date.year) - date.ordinal) - 1)

(* The order of Date: a < b. *)
DateLt(a, b) == a.year < b.year \/ (a.year = b.year /\ a.ordinal < b.ordinal)

(* Days from 0001-01-01, a Monday, to the date. *)
DayNum(date) ==
    LET p == date.year - 1 IN
    365 * p + (p \div 4) - (p \div 100) + (p \div 400) + date.ordinal - 1

(* Date::weekday().num_days_from_monday() *)
WeekdayOf(date) == DayNum(date) % 7

(* Weeks of the ISO year y: 53 when it starts on a Thursday, or on a       *)
(* Wednesday and is a leap year.                                           *)
IsoWeeksInYear(y) ==
    LET jan1 == WeekdayOf([year |-> y, ordinal |-> 1]) IN
    IF jan1 = 3 \/ (jan1 = 2 /\ IsLeap(y)) THEN 53 ELSE 52

(* Date::isoweekdate().1: the week of the ISO year the date lies in. *)
IsoWeek(date) ==
    LET w == (date.ordinal - (WeekdayOf(date) + 1) + 10) \div 7 IN
    IF w < 1 THEN IsoWeeksInYear(date.year - 1)
    ELSE IF w > IsoWeeksInYear(date.year) THEN 1
    ELSE w

(* Mutant of WeekNumber: weeks counted in sevens from January 1. *)
WeekNumber_FromJan1(date) == (date.ordinal - 1) \div 7

WeekNumber(date) == IsoWeek(date) - 1

----------------------------------------------------------------------------
(* DateRange                                                               *)

DateRangeNew(start, end) == [type |-> "DateRange", start |-> start, end |-> end]

(* Mutant of Empty: a range whose start has reached its end still counts   *)
(* as holding a date.                                                      *)
Empty_Strict(self) == DateLt(self.end, self.start)

Empty(self) == ~DateLt(self.start, self.end)

DateRangeNextFn(self) ==
    IF Empty(self)
    THEN Ret(None, self)
    ELSE Ret(Some(self.start), [self EXCEPT !.start = Succ(self.start)])

----------------------------------------------------------------------------
(* GroupBy.  The key function is named: "month" is Date::month and         *)
(* "week_number" is week_number, the two keys of by_month and by_week;     *)
(* "day" is Date::day, "weekday" is weekday and "constant" is |_| 0, three *)
(* more functions of the date that group_by accepts.                       *)

KeyOf(key, date) ==
    CASE key = "month" -> MonthOf(date)
      [] key = "week_number" -> WeekNumber(date)
      [] key = "day" -> DayOf(date)
      [] key = "weekday" -> WeekdayOf(date)
      [] key = "constant" -> 0

GroupByNew(dates, key) == [type |-> "GroupBy", dates |-> dates, key |-> key]

ByMonth(self) == GroupByNew(self, "month")

ByWeek(self) == GroupByNew(self, "week_number")

(* The number of dates a range still yields. *)
Remaining(dates) ==
    IF Empty(dates) THEN 0 ELSE DayNum(dates.end) - DayNum(dates.start)

(* dates.skip_while(|d| key(d) == start_key).next(), on its own copy of    *)
(* the range: the copy yields start, start + 1 day, ...; the answer is the *)
(* first of them whose key differs, with the copy left just after it, or   *)
(* None with the copy run to its end.                                      *)
SkipWhileNext(dates, key, start_key) ==
    Only({
      IF differ = {}
      THEN Ret(None, [dates EXCEPT
                         !.start = AddDays(dates.start, Remaining(dates))])
      ELSE Only({
             Ret(Some(AddDays(dates.start, k)),
                 [dates EXCEPT !.start = AddDays(dates.start, k + 1)])
           : k \in {x \in differ : \A y \in differ : x <= y}})
    : differ \in {{k \in 0..(Remaining(dates) - 1) :
                     KeyOf(key, AddDays(dates.start, k)) # start_key}}})

(* Mutant of GroupByNextFn: the scan runs on the stored range, not on a    *)
(* copy, so the date that ended the scan is consumed.                      *)
GroupByNextFn_ScanConsumes(self) ==
    IF Empty(self.dates) THEN Ret(None, self)
    ELSE Only({
           Ret(Some(DateRangeNew(self.dates.start,
                                 IF IsSome(found.item) THEN Unwrap(found.item)
                                 ELSE self.dates.end)),
               [self EXCEPT !.dates = found.it])
         : found \in {SkipWhileNext(self.dates, self.key,
                                    KeyOf(self.key, self.dates.start))}})

(* start is self.dates.start, start_key its key, and end what the scan     *)
(* found or else self.dates.end.                                           *)
GroupByNextFn(self) ==
    IF Empty(self.dates) THEN Ret(None, self)
    ELSE Only({
           Ret(Some(DateRangeNew(self.dates.start, end)),
               [self EXCEPT !.dates = DateRangeNew(end, self.dates.end)])
         : end \in {Only({IF IsSome(found.item) THEN Unwrap(found.item)
                          ELSE self.dates.end
                        : found \in {SkipWhileNext(self.dates, self.key,
                                       KeyOf(self.key, self.dates.start))}})}})

(* Mutant of Dates: the range ends on December 31, which is left out. *)
Dates_EndsDec31(year) == DateRangeNew(Ymd(year, 1, 1), Ymd(year, 12, 31))

Dates(year) == DateRangeNew(Ymd(year, 1, 1), Ymd(year + 1, 1, 1))

----------------------------------------------------------------------------
(* std::iter adapters that main and layout_month build on.                 *)

(* once(v) *)
OnceNew(v) == [type |-> "Once", item |-> Some(v)]

OnceNext(self) == Ret(self.item, [self EXCEPT !.item = None])

(* repeat(item).take(n) *)
RepeatTake(item, n) == [type |-> "Take", item |-> item, n |-> n]

RepeatTakeNext(self) ==
    IF self.n = 0 THEN Ret(None, self)
    ELSE Ret(Some(self.item), [self EXCEPT !.n = self.n - 1])

(* a.chain(b): a until it returns None, then b. *)
ChainNew(a, b) == [type |-> "Chain", a |-> a, b |-> b, state |-> "Both"]

ChainNextFn(self) ==
    IF self.state = "Both"
    THEN Only({
           IF r.panic THEN Panicked([self EXCEPT !.a = r.it])
           ELSE IF IsSome(r.item) THEN Ret(r.item, [self EXCEPT !.a = r.it])
           ELSE Only({
                  [q EXCEPT !.it = [self EXCEPT !.a = r.it, !.b = q.it,
                                                !.state = "Back"]]
                : q \in {IterNext(self.b)}})
         : r \in {IterNext(self.a)}})
    ELSE Only({[q EXCEPT !.it = [self EXCEPT !.b = q.it]]
               : q \in {IterNext(self.b)}})

(* inner.map(f); f is named, see Apply. *)
MapNew(inner, f) == [type |-> "Map", inner |-> inner, f |-> f]

Fn(name) == [fn |-> name]

(* String::from_iter: the strings one after another. *)
RECURSIVE Concat(_, _)
Concat(ss, acc) ==
    IF ss = <<>> THEN acc ELSE Concat(Tail(ss), acc \o Head(ss))

(* c.collect::<String>() *)
CollectString(it) ==
    Only({[value |-> Str(Concat(c.items, <<>>)), panic |-> c.panic]
          : c \in {Collect(it, <<>>)}})

----------------------------------------------------------------------------
(* format.rs *)

Spaces(n) == [i \in 1..n |-> " "]

(* Date::pred *)
Pred(date) ==
    IF date.ordinal > 1 THEN [date EXCEPT !.ordinal = date.ordinal - 1]
    ELSE [year |-> date.year - 1, ordinal |-> DaysInYear(date.year - 1)]

(* format!("{: >3}", date.day()) *)
FormatDay(date) ==
    Only({IF Len(d) >= 3 THEN d ELSE Spaces(3 - Len(d)) \o d
          : d \in {Decimal(DayOf(date))}})

(* week.map(format_day), written to the String one after another *)
FormatDays(week) ==
    Only({Concat([i \in 1..Len(c.items) |-> FormatDay(c.items[i])], <<>>)
          : c \in {Collect(week, <<>>)}})

FormatWeek(week) ==
    Spaces(WeekdayOf(week.start) * 3)
        \o FormatDays(week)
        \o Spaces((6 - WeekdayOf(Pred(week.end))) * 3)
        \o <<" ">>

(* date.format("%B") *)
MonthName(date) ==
    <<<<"J", "a", "n", "u", "a", "r", "y">>,
      <<"F", "e", "b", "r", "u", "a", "r", "y">>,
      <<"M", "a", "r", "c", "h">>,
      <<"A", "p", "r", "i", "l">>,
      <<"M", "a", "y">>,
      <<"J", "u", "n", "e">>,
      <<"J", "u", "l", "y">>,
      <<"A", "u", "g", "u", "s", "t">>,
      <<"S", "e", "p", "t", "e", "m", "b", "e", "r">>,
      <<"O", "c", "t", "o", "b", "e", "r">>,
      <<"N", "o", "v", "e", "m", "b", "e", "r">>,
      <<"D", "e", "c", "e", "m", "b", "e", "r">>>>[MonthOf(date)]

(* format!("{: ^22}", name): centred, the odd space on the right. *)
MonthTitle(date) ==
    Only({IF Len(name) >= 22 THEN name
          ELSE Spaces((22 - Len(name)) \div 2) \o name
                   \o Spaces((22 - Len(name)) - ((22 - Len(name)) \div 2))
          : name \in {MonthName(date)}})

(* month.by_week().count() *)
WeekCount(month) == Len(Collect(ByWeek(month), <<>>).items)

(* Mutant of PaddingCount: no padding lines at all. *)
PaddingCount_NoPadding(week_count, overflow_checks) ==
    [value |-> 0, panic |-> FALSE]

(* 6 - week_count in usize: below zero it panics in a build with overflow  *)
(* checks and wraps in one without; a negative value n stands for the      *)
(* wrapped 2^64 + n, which take() counts down like any other.              *)
PaddingCount(week_count, overflow_checks) ==
    IF week_count > 6 /\ overflow_checks
    THEN [value |-> 0, panic |-> TRUE]
    ELSE [value |-> 6 - week_count, panic |-> FALSE]

LayoutMonth(month, overflow_checks) ==
    Only({
      [value |-> ChainNew(OnceNew(MonthTitle(month.start)),
                          ChainNew(MapNew(ByWeek(month), Fn("format_week")),
                                   RepeatTake(Spaces(22), n.value))),
       panic |-> n.panic]
    : n \in {PaddingCount(WeekCount(month), overflow_checks)}})

(* f(x) for the functions that main and layout_month map over a sequence. *)
Apply(f, x) ==
    CASE f.fn = "layout_month" -> LayoutMonth(x, f.overflow_checks)
      [] f.fn = "format_week" -> [value |-> FormatWeek(x), panic |-> FALSE]
      [] f.fn = "transpose" ->
            Only({[value |-> t.it, panic |-> t.panic] : t \in {Transpose(x)}})

MapNextFn(self) ==
    Only({
      IF r.panic THEN Panicked([self EXCEPT !.inner = r.it])
      ELSE IF r.item = None THEN Ret(None, [self EXCEPT !.inner = r.it])
      ELSE Only({
             IF v.panic THEN Panicked([self EXCEPT !.inner = r.it])
             ELSE Ret(Some(v.value), [self EXCEPT !.inner = r.it])
           : v \in {Apply(self.f, Unwrap(r.item))}})
    : r \in {IterNext(self.inner)}})

(* main: dates(year).by_month().map(layout_month).chunk(months_per_line)   *)
(*       .map(|c| c.transpose()).chain_all()                               *)
Calendar(year, months_per_line, overflow_checks) ==
    ChainAllNew(
        MapNew(ChunkNew(MapNew(ByMonth(Dates(year)),
                               [fn |-> "layout_month",
                                overflow_checks |-> overflow_checks]),
                        months_per_line),
               Fn("transpose")))

----------------------------------------------------------------------------
(* next() of any iterator object, by its type. *)

IterNext(it) ==
    CASE it.type = "IntoIter" -> VecIterNext(it)
      [] it.type = "Chunk" -> ChunkNextFn(it)
      [] it.type = "Interleave" -> InterleaveNextFn(it)
      [] it.type = "ChainAll" -> ChainAllNextFn(it)
      [] it.type = "DateRange" -> DateRangeNextFn(it)
      [] it.type = "GroupBy" -> GroupByNextFn(it)
      [] it.type = "Once" -> OnceNext(it)
      [] it.type = "Take" -> RepeatTakeNext(it)
      [] it.type = "Chain" -> ChainNextFn(it)
      [] it.type = "Map" -> MapNextFn(it)

----------------------------------------------------------------------------
(* The caller: one next() call on the object it holds.                     *)

NoneCount(h) == Cardinality({i \in 1..Len(h) : h[i] = None})

Call ==
    /\ ~panic
    /\ NoneCount(hist) < MaxNone
    /\ \E r \in {IterNext(iter)} :
         /\ iter' = r.it
         /\ panic' = r.panic
         /\ hist' = IF r.panic THEN hist ELSE Append(hist, r.item)
    /\ UNCHANGED <<input, result>>

(* The state once a constructor, called on the arguments args, has         *)
(* returned c.                                                             *)
Constructed(args, c) ==
    /\ input = args
    /\ iter = c.it
    /\ panic = c.panic
    /\ hist = <<>>
    /\ result = None

(* The Range a..b as the sequence it yields. *)
Range(a, b) == [i \in 1..(b - a) |-> a + i - 1]

----------------------------------------------------------------------------
(* Chunk over a buffer: input.iter().chunk(size)                           *)

InitChunk ==
    \E len \in 0..MaxChunkLen, size \in 0..MaxSize :
        Constructed([inner |-> Range(0, len), size |-> size],
                    Ret(None, ChunkNew(VecIter(Range(0, len)), size)))

ChunkNext ==
    /\ iter.type = "Chunk"
    /\ Call

SpecChunk == InitChunk /\ [][ChunkNext]_vars

----------------------------------------------------------------------------
(* Outer sequences of rows.  Row i holds the pairs <<i, 1>> .. <<i, len>>, *)
(* so every element names the row and the place it came from.              *)

Row(i, len) == [j \in 1..len |-> <<i, j>>]

Rows(lens) == [i \in 1..Len(lens) |-> Row(i, lens[i])]

RowLens == UNION {[1..n -> 0..MaxLen] : n \in 0..MaxRows}

RowIters(rows) == VecIter([i \in 1..Len(rows) |-> VecIter(rows[i])])

RowInputs == {Rows(lens) : lens \in RowLens}

----------------------------------------------------------------------------
(* input.into_iter().interleave()                                          *)

InitInterleave ==
    \E rows \in RowInputs : Constructed(rows, InterleaveNew(RowIters(rows)))

InterleaveNext ==
    /\ iter.type = "Interleave"
    /\ Call

SpecInterleave == InitInterleave /\ [][InterleaveNext]_vars

----------------------------------------------------------------------------
(* input.into_iter().transpose()                                           *)

InitTranspose ==
    \E rows \in RowInputs : Constructed(rows, Transpose(RowIters(rows)))

TransposeNext ==
    /\ iter.type = "Chunk"
    /\ iter.inner.type = "Interleave"
    /\ Call

SpecTranspose == InitTranspose /\ [][TransposeNext]_vars

----------------------------------------------------------------------------
(* input.into_iter().chain_all()                                           *)

InitChainAll ==
    \E rows \in RowInputs :
        Constructed(rows, Ret(None, ChainAllNew(RowIters(rows))))

ChainAllNext ==
    /\ iter.type = "ChainAll"
    /\ Call

SpecChainAll == InitChainAll /\ [][ChainAllNext]_vars

----------------------------------------------------------------------------
(* input.iter().join(separator)                                            *)

Items ==
    {Str(<<"f", "o", "o">>), Str(<<"b", "a", "r">>), Str(<<"b", "a", "z">>),
     Str(<<>>), Int_(12)}

Separators == {<<>>, <<",">>, <<",", " ">>}

InitJoin ==
    \E n \in 0..MaxItems : \E items \in [1..n -> Items] :
        \E separator \in Separators :
            Constructed([items |-> items, separator |-> separator],
                        Ret(None, VecIter(items)))

JoinCall ==
    /\ result = None
    /\ ~panic
    /\ \E j \in {Join(iter, input.separator)} :
         /\ result' = IF j.panic THEN result ELSE Some(j.result)
         /\ iter' = j.it
         /\ panic' = j.panic
    /\ UNCHANGED <<input, hist>>

SpecJoin == InitJoin /\ [][JoinCall]_vars

----------------------------------------------------------------------------
(* Date ranges.                                                            *)

StartDates ==
    UNION {{[year |-> y, ordinal |-> o] : o \in 1..DaysInYear(y)} :
              y \in FirstYear..(FirstYear + NumYears - 1)}

(* DateRange::new(start, end): end up to span days after start, or up to   *)
(* MaxDays days before it.                                                 *)
RangeInputs(span) ==
    UNION {{DateRangeNew(a, AddDays(a, k)) : k \in 0..span}
           \cup {DateRangeNew(AddDays(a, k), a) : k \in 1..MaxDays} :
              a \in StartDates}

InitDateRange ==
    \E r \in RangeInputs(MaxDays) : Constructed(r, Ret(None, r))

DateRangeNext ==
    /\ iter.type = "DateRange"
    /\ Call

SpecDateRange == InitDateRange /\ [][DateRangeNext]_vars

InitByMonth ==
    \E r \in RangeInputs(MaxSpan) : Constructed(r, Ret(None, ByMonth(r)))

InitByWeek ==
    \E r \in RangeInputs(MaxWeekSpan) : Constructed(r, Ret(None, ByWeek(r)))

GroupByNext ==
    /\ iter.type = "GroupBy"
    /\ Call

SpecByMonth == InitByMonth /\ [][GroupByNext]_vars

SpecByWeek == InitByWeek /\ [][GroupByNext]_vars

(* range.group_by(key), for each of the named keys *)
Keys == {"month", "week_number", "day", "weekday", "constant"}

InitGroupBy ==
    \E r \in RangeInputs(MaxGroupSpan), key \in Keys :
        Constructed(r, Ret(None, GroupByNew(r, key)))

SpecGroupBy == InitGroupBy /\ [][GroupByNext]_vars

(* The calendar of main, for a year and a number of months per line.      *)
CalendarYears == FirstCalendarYear..(FirstCalendarYear + NumCalendarYears - 1)

InitCalendar ==
    \E year \in CalendarYears, months_per_line \in 0..MaxPerLine,
       overflow_checks \in BOOLEAN :
        Constructed([year |-> year, months_per_line |-> months_per_line],
                    Ret(None, Calendar(year, months_per_line, overflow_checks)))

(* One turn of join("\n") over .map(|c| c.collect::<String>()): the next() *)
(* of the Map pulls a transposed chunk from the ChainAll and collects it   *)
(* into a line, and join writes the line, after a separator unless it is   *)
(* the first; the first None ends join.  hist keeps the chunks pulled and  *)
(* result the String written so far.                                       *)
CalendarJoinStep ==
    /\ iter.type = "ChainAll"
    /\ iter.all.type = "Map"
    /\ ~panic
    /\ ~(\E i \in 1..Len(hist) : hist[i] = None)
    /\ \E r \in {IterNext(iter)} :
         /\ iter' = r.it
         /\ IF r.panic
            THEN panic' = TRUE /\ UNCHANGED <<hist, result>>
            ELSE IF r.item = None
            THEN /\ hist' = Append(hist, None)
                 /\ result' = IF hist = <<>> THEN Some(<<>>) ELSE result
                 /\ panic' = FALSE
            ELSE \E line \in {CollectString(Unwrap(r.item))} :
                   /\ panic' = line.panic
                   /\ hist' = IF line.panic THEN hist ELSE Append(hist, r.item)
                   /\ result' =
                        IF line.panic THEN result
                        ELSE IF hist = <<>> THEN Some(Display(line.value))
                        ELSE Some(Unwrap(result) \o <<"\n">> \o Display(line.value))
    /\ UNCHANGED input

SpecCalendar == InitCalendar /\ [][CalendarJoinStep]_vars

(* Chunk on its own and Chunk inside the calendar of main. *)
SpecChunkUses ==
    (InitChunk \/ InitCalendar) /\ [][ChunkNext \/ CalendarJoinStep]_vars

(* dates(year) *)
DatesYears == {1900, 2000} \cup (FirstYear..(FirstYear + NumYears))

InitDates ==
    \E y \in DatesYears : Constructed(y, Ret(None, Dates(y)))

SpecDates == InitDates /\ [][DateRangeNext]_vars

----------------------------------------------------------------------------
(* Every construction and every call together.                             *)

Init ==
    \/ InitChunk
    \/ InitInterleave
    \/ InitTranspose
    \/ InitChainAll
    \/ InitJoin
    \/ InitDateRange
    \/ InitByMonth
    \/ InitByWeek
    \/ InitGroupBy
    \/ InitCalendar
    \/ InitDates

Next ==
    \/ ChunkNext
    \/ InterleaveNext
    \/ ChainAllNext
    \/ JoinCall
    \/ DateRangeNext
    \/ GroupByNext
    \/ CalendarJoinStep

Spec == Init /\ [][Next]_vars

----------------------------------------------------------------------------
(* What a caller that pulls until the first None has seen.                 *)

Ended(h) == \E i \in 1..Len(h) : h[i] = None

FirstNone(h) == CHOOSE i \in 1..Len(h) : h[i] = None /\ \A j \in 1..(i - 1) : h[j] # None

BeforeNone(h) == IF Ended(h) THEN SubSeq(h, 1, FirstNone(h) - 1) ELSE h

Values(h) == [i \in 1..Len(BeforeNone(h)) |-> Unwrap(BeforeNone(h)[i])]

RECURSIVE Flatten(_)
Flatten(ss) == IF ss = <<>> THEN <<>> ELSE Head(ss) \o Flatten(Tail(ss))

IsPrefix(a, b) == Len(a) <= Len(b) /\ a = SubSeq(b, 1, Len(a))

Ceil(a, b) == (a + b - 1) \div b

Min(S) == CHOOSE x \in S : \A y \in S : x <= y

----------------------------------------------------------------------------
(* C1: with a chunk size S > 0 over a sequence of length L, pulling until  *)
(* None gives ceil(L/S) chunks, all of S elements except a last one of 1   *)
(* to S, and the chunks concatenated are the sequence.                     *)
C1_ChunkPartition ==
    input.size > 0 =>
        LET L == Len(input.inner)
            S == input.size
            chunks == [i \in 1..Len(Values(hist)) |-> Values(hist)[i].rest]
        IN  /\ IsPrefix(Flatten(chunks), input.inner)
            /\ \A i \in 1..Len(chunks) : Len(chunks[i]) \in 1..S
            /\ \A i \in 1..(Len(chunks) - 1) : Len(chunks[i]) = S
            /\ Len(chunks) <= Ceil(L, S)
            /\ Ended(hist) =>
                  /\ Len(chunks) = Ceil(L, S)
                  /\ Flatten(chunks) = input.inner

C1_Witness ==
    /\ input.size = 2
    /\ Len(input.inner) = 5
    /\ Ended(hist)
    /\ Len(Values(hist)) = 3
    /\ Len(Values(hist)[3].rest) = 1

(* C3: chain_all pulled until None gives the inner sequences concatenated  *)
(* in outer order; empty inner sequences are skipped and None comes only   *)
(* when nothing is left.                                                   *)
C3_ChainAllConcat ==
    /\ ~panic
    /\ IsPrefix(Values(hist), Flatten(input))
    /\ Ended(hist) => Values(hist) = Flatten(input)

C3_Witness ==
    /\ Len(input) = 3
    /\ input[1] = <<>>
    /\ Len(input[2]) = 2
    /\ input[3] = <<>>
    /\ Ended(hist)
    /\ Values(hist) = input[2]

EqualRows == Len(input) >= 1 /\ \A i \in 1..Len(input) : Len(input[i]) = Len(input[1])

Column(j) == [i \in 1..Len(input) |-> input[i][j]]

(* C4: transpose of N >= 1 rows of one length M gives M chunks of N        *)
(* elements, element i of chunk j being element j of row i; none for M = 0.*)
C4_TransposeColumns ==
    EqualRows =>
        /\ ~panic
        /\ Len(Values(hist)) <= Len(input[1])
        /\ \A j \in 1..Len(Values(hist)) : Values(hist)[j] = VecIter(Column(j))
        /\ Ended(hist) => Len(Values(hist)) = Len(input[1])

C4_Witness ==
    /\ EqualRows
    /\ Len(input) = 3
    /\ Len(input[1]) = 2
    /\ Ended(hist)
    /\ Len(Values(hist)) = 2

MinLen == Min({Len(input[i]) : i \in 1..Len(input)})

FirstShortest == Min({i \in 1..Len(input) : Len(input[i]) = MinLen}) - 1

(* C5: interleave pulled until the first None gives, at place k (from 0),  *)
(* element floor(k/N) of sequence k mod N, and stops at the first turn of  *)
(* a sequence with nothing left: N*m + j elements, m the least length and  *)
(* j the first index that has it.                                          *)
C5_InterleaveOrder ==
    Len(input) >= 1 =>
        LET N == Len(input)
            out == Values(hist)
        IN  /\ \A k \in 0..(Len(out) - 1) :
                  /\ (k \div N) + 1 <= Len(input[(k % N) + 1])
                  /\ out[k + 1] = input[(k % N) + 1][(k \div N) + 1]
            /\ Len(out) <= N * MinLen + FirstShortest
            /\ Ended(hist) => Len(out) = N * MinLen + FirstShortest

C5_Witness ==
    /\ Len(input) = 3
    /\ Len(input[1]) = 3 /\ Len(input[2]) = 3 /\ Len(input[3]) = 4
    /\ Ended(hist)
    /\ Values(hist) = << <<1, 1>>, <<2, 1>>, <<3, 1>>,
                         <<1, 2>>, <<2, 2>>, <<3, 2>>,
                         <<1, 3>>, <<2, 3>>, <<3, 3>> >>

(* C9: interleave() panics exactly when the outer sequence is empty, and   *)
(* then at construction, with nothing produced; otherwise no next() call   *)
(* panics and the cursor stays inside the collection.                      *)
C9_InterleaveAssert ==
    /\ panic <=> Len(input) = 0
    /\ panic => hist = <<>> /\ iter = NoIter
    /\ ~panic => iter.index \in 0..(Len(iter.inner) - 1)

C9_Witness ==
    /\ input = <<>>
    /\ panic
    /\ hist = <<>>

Texts == [i \in 1..Len(input.items) |-> Display(input.items[i])]

Separated ==
    Flatten([k \in 1..(2 * Len(Texts) - 1) |->
                IF k % 2 = 1 THEN Texts[(k + 1) \div 2] ELSE input.separator])

(* C7: join returns the elements' texts in order with the separator       *)
(* strictly between consecutive ones: max(n-1, 0) separators, a single     *)
(* element's text unchanged, the empty string for no element; the whole    *)
(* sequence is consumed.                                                   *)
C7_JoinSeparates ==
    IsSome(result) =>
        LET n == Len(input.items)
            r == Unwrap(result)
        IN  /\ r = Separated
            /\ Len(r) = Len(Flatten(Texts))
                          + (IF n = 0 THEN 0 ELSE n - 1) * Len(input.separator)
            /\ n = 1 => r = Texts[1]
            /\ n = 0 => r = <<>>
            /\ iter.rest = <<>>

C7_Witness ==
    /\ input.items = <<Str(<<"f", "o", "o">>), Str(<<"b", "a", "r">>),
                       Str(<<"b", "a", "z">>)>>
    /\ input.separator = <<",">>
    /\ result = Some(<<"f", "o", "o", ",", "b", "a", "r", ",", "b", "a", "z">>)

(* A date of the calendar: its ordinal is a day of its year. *)
IsDate(date) == date.ordinal \in 1..DaysInYear(date.year)

(* C8: dates(y) yields every day of year y once, in increasing order, from *)
(* y-01-01 to y-12-31: 366 dates in a Gregorian leap year, 365 otherwise.  *)
C8_DatesOfYear ==
    LET y == input
        out == Values(hist)
        leap == (y % 4 = 0 /\ y % 100 # 0) \/ y % 400 = 0
        n == IF leap THEN 366 ELSE 365
    IN  /\ \A k \in 1..Len(out) :
              /\ out[k].year = y
              /\ out[k].ordinal = k
              /\ IsDate(out[k])
        /\ Len(out) >= 1 => out[1] = Ymd(y, 1, 1)
        /\ Len(out) <= n
        /\ Ended(hist) =>
              /\ Len(out) = n
              /\ out[n] = Ymd(y, 12, 31)
              /\ MonthOf(out[n]) = 12 /\ DayOf(out[n]) = 31

C8_Witness ==
    /\ input = 2016
    /\ Ended(hist)
    /\ Len(Values(hist)) = 366

(* C10: a DateRange yields start, start + 1 day, ..., end - 1 day and then *)
(* None; with start >= end the first next() is None; a next() that         *)
(* returns None leaves both bounds as they were, so None is final.         *)
C10_DateRangeHalfOpen ==
    LET s == input.start
        e == input.end
        n == IF DayNum(e) > DayNum(s) THEN DayNum(e) - DayNum(s) ELSE 0
        out == Values(hist)
    IN  /\ \A k \in 1..Len(out) :
              /\ IsDate(out[k])
              /\ DayNum(out[k]) = DayNum(s) + k - 1
              /\ DayNum(out[k]) < DayNum(e)
        /\ Len(out) <= n
        /\ iter.end = e
        /\ Ended(hist) =>
              /\ Len(out) = n
              /\ \A i \in FirstNone(hist)..Len(hist) : hist[i] = None
              /\ iter.start = IF n > 0 THEN e ELSE s

C10_Witness ==
    /\ input = DateRangeNew(Ymd(2015, 12, 30), Ymd(2016, 1, 2))
    /\ hist = <<Some(Ymd(2015, 12, 30)), Some(Ymd(2015, 12, 31)),
                Some(Ymd(2016, 1, 1)), None, None>>

(* The groups a GroupBy has returned partition a prefix of the range: each *)
(* is a non-empty DateRange, the first begins at the range's start, each   *)
(* begins where the one before ended, and once None is returned the last   *)
(* ends at the range's end.                                                *)
Groups == Values(hist)

GroupDates(g) == [k \in 1..(DayNum(g.end) - DayNum(g.start)) |-> AddDays(g.start, k - 1)]

GroupsPartition ==
    /\ \A i \in 1..Len(Groups) :
          /\ Groups[i].type = "DateRange"
          /\ IsDate(Groups[i].start) /\ IsDate(Groups[i].end)
          /\ DayNum(Groups[i].start) < DayNum(Groups[i].end)
          /\ DayNum(Groups[i].end) <= DayNum(input.end)
    /\ Len(Groups) >= 1 => Groups[1].start = input.start
    /\ \A i \in 1..(Len(Groups) - 1) : Groups[i + 1].start = Groups[i].end
    /\ Ended(hist) =>
          IF DateLt(input.start, input.end)
          THEN Len(Groups) >= 1 /\ Groups[Len(Groups)].end = input.end
          ELSE Groups = <<>>

(* C2: by_month splits a range into non-empty, contiguous sub-ranges that  *)
(* cover it; all dates of a sub-range have one month number, and the date  *)
(* before and the date after it, inside the range, have another.           *)
C2_ByMonthPartition ==
    /\ GroupsPartition
    /\ \A i \in 1..Len(Groups) :
          LET g == Groups[i]
              ds == GroupDates(g)
          IN  /\ \A k \in 1..Len(ds) : MonthOf(ds[k]) = MonthOf(g.start)
              /\ DateLt(g.end, input.end) => MonthOf(g.end) # MonthOf(g.start)
              /\ i > 1 =>
                    LET before == GroupDates(Groups[i - 1]) IN
                    MonthOf(before[Len(before)]) # MonthOf(g.start)

C2_Witness ==
    /\ input = DateRangeNew(Ymd(2015, 1, 10), Ymd(2015, 3, 10))
    /\ hist = <<Some(DateRangeNew(Ymd(2015, 1, 10), Ymd(2015, 2, 1))),
                Some(DateRangeNew(Ymd(2015, 2, 1), Ymd(2015, 3, 1))),
                Some(DateRangeNew(Ymd(2015, 3, 1), Ymd(2015, 3, 10))),
                None>>

IsMonday(date) == WeekdayOf(date) = 0

(* C6: by_week starts a group at every Monday strictly inside the range    *)
(* and nowhere else but at the range's start, whatever the months or years *)
(* of the dates.                                                           *)
C6_ByWeekMondays ==
    /\ GroupsPartition
    /\ \A i \in 2..Len(Groups) : IsMonday(Groups[i].start)
    /\ \A i \in 1..Len(Groups) :
          LET ds == GroupDates(Groups[i]) IN
          \A k \in 2..Len(ds) : ~IsMonday(ds[k])

C6_Witness ==
    /\ input = DateRangeNew(Ymd(2015, 1, 1), Ymd(2015, 1, 17))
    /\ hist = <<Some(DateRangeNew(Ymd(2015, 1, 1), Ymd(2015, 1, 5))),
                Some(DateRangeNew(Ymd(2015, 1, 5), Ymd(2015, 1, 12))),
                Some(DateRangeNew(Ymd(2015, 1, 12), Ymd(2015, 1, 17))),
                None>>

----------------------------------------------------------------------------
(* C11: after Chunk.next() has returned None, every later Chunk.next()     *)
(* returns None too, whatever the inner sequence is: a buffer, or the      *)
(* Interleave that transpose() wraps, rows of unequal length included.     *)
C11_ChunkStaysNone ==
    iter.type = "Chunk" =>
        \A i \in 1..Len(hist) : \A j \in i..Len(hist) :
            hist[i] = None => hist[j] = None

(* Of the first c calls on an Interleave over N sequences, those that were *)
(* the turn of sequence i (from 1).                                        *)
Turns(i, c, N) == Cardinality({k \in 0..(c - 1) : k % N = i - 1})

(* What is left of the sequence s after t pulls.                           *)
LeftAfter(s, t) == IF t >= Len(s) THEN <<>> ELSE SubSeq(s, t + 1, Len(s))

Pulled == Len(input) - Len(iter.all.rest)

(* C13: ChainAll pulls nothing from the outer sequence at construction,    *)
(* and a next() call pulls from it only when there is no current inner     *)
(* sequence or the current one has just returned None: when the last       *)
(* element returned came from inner sequence i (from 1), exactly i outer   *)
(* elements have been pulled, also when that element was the last of its   *)
(* sequence, and the current inner sequence is what is left of sequence i. *)
C13_ChainAllLazy ==
    /\ ~panic
    /\ Pulled \in 0..Len(input)
    /\ iter.all = VecIter(LeftAfter(RowIters(input).rest, Pulled))
    /\ hist = <<>> => Pulled = 0 /\ iter.current = None
    /\ hist # <<>> =>
          LET last == hist[Len(hist)]
          IN  IF last = None
              THEN Pulled = Len(input) /\ iter.current = None
              ELSE LET i == Unwrap(last)[1]
                       j == Unwrap(last)[2]
                   IN  /\ Pulled = i
                       /\ iter.current = Some(VecIter(LeftAfter(input[i], j)))

(* The last element of the first inner sequence has been returned, and the *)
(* two inner sequences after it are still in the outer sequence.           *)
C13_Witness ==
    /\ Len(input) = 3
    /\ Len(input[1]) = 2 /\ Len(input[2]) = 0 /\ Len(input[3]) = 1
    /\ hist = <<Some(<<1, 1>>), Some(<<1, 2>>)>>
    /\ iter.current = Some(VecIter(<<>>))
    /\ Len(iter.all.rest) = 2

(* The length in days of the range from start to end, 0 when end is not    *)
(* after start.                                                            *)
SpanDays(range) ==
    IF DateLt(range.start, range.end)
    THEN DayNum(range.end) - DayNum(range.start) ELSE 0

(* C14: for every range and every key, each group GroupBy.next() returns   *)
(* is DateRange(start, boundary) with start < boundary <= end, start being *)
(* the stored start; the state left is DateRange(boundary, end), the end   *)
(* as given and nothing else consumed by the scan; so the stored start     *)
(* grows with every group, there are at most (end - start) groups, and     *)
(* once next() has returned None the state stays and None is all that      *)
(* follows.                                                                *)
C14_GroupByProgress ==
    LET gs == Values(hist)
        n == Len(gs)
    IN  /\ ~panic
        /\ \A i \in 1..n :
              /\ gs[i].type = "DateRange"
              /\ DateLt(gs[i].start, gs[i].end)
              /\ ~DateLt(input.end, gs[i].end)
              /\ gs[i].start = IF i = 1 THEN input.start ELSE gs[i - 1].end
        /\ iter.dates = DateRangeNew(IF n = 0 THEN input.start ELSE gs[n].end,
                                     input.end)
        /\ n <= SpanDays(input)
        /\ \A i \in 1..Len(hist) : \A j \in i..Len(hist) :
              hist[i] = None => hist[j] = None /\ Empty(iter.dates)

(* Three days grouped by the day of the month: as many groups as days,     *)
(* then None twice.                                                        *)
C14_Witness ==
    /\ iter.type = "GroupBy"
    /\ iter.key = "day"
    /\ SpanDays(input) = 3
    /\ Len(hist) = 5
    /\ Len(Values(hist)) = 3
    /\ hist[4] = None /\ hist[5] = None
    /\ iter.dates = DateRangeNew(input.end, input.end)

(* C15: on a Chunk of size 0 the first next(), and every later one,        *)
(* returns None and pulls nothing from the inner sequence, whatever that   *)
(* holds; in the calendar of main with 0 months per line the chunk leaves  *)
(* the months where they are, the first next() of the pipeline is None and *)
(* the calendar is the empty String.                                       *)
C15_ChunkZeroEnds ==
    /\ (iter.type = "Chunk" /\ input.size = 0) =>
          /\ ~panic
          /\ \A i \in 1..Len(hist) : hist[i] = None
          /\ iter = ChunkNew(VecIter(input.inner), 0)
    /\ (iter.type = "ChainAll" /\ input.months_per_line = 0) =>
          /\ ~panic
          /\ hist \in {<<>>, <<None>>}
          /\ iter.all.inner.type = "Chunk"
          /\ iter.all.inner.size = 0
          /\ iter.all.inner.inner.inner = ByMonth(Dates(input.year))
          /\ iter.current = None
          /\ result = IF hist = <<>> THEN None ELSE Some(<<>>)

(* A Chunk of size 0 over seven elements has answered None twice and the   *)
(* seven elements are still in the inner sequence.                         *)
C15_Witness ==
    /\ iter.type = "Chunk"
    /\ input.size = 0
    /\ Len(input.inner) = 7
    /\ hist = <<None, None>>
    /\ Len(iter.inner.rest) = 7

(* Month m of year y, as a range. *)
MonthRange(y, m) ==
    DateRangeNew(Ymd(y, m, 1), IF m = 12 THEN Ymd(y + 1, 1, 1) ELSE Ymd(y, m + 1, 1))

(* The lines layout_month yields for a month, pulled to the end. *)
LayoutLines(month) == Collect(LayoutMonth(month, TRUE).value, <<>>).items

(* The title, a line for each week and blank lines up to six weeks. *)
SevenLines(month) ==
    LET weeks == Collect(ByWeek(month), <<>>).items
        wc == Len(weeks)
        lines == LayoutLines(month)
    IN  /\ wc \in 4..6
        /\ WeekCount(month) = wc
        /\ ~PaddingCount(wc, TRUE).panic
        /\ PaddingCount(wc, FALSE).value \in 0..2
        /\ Len(lines) = 7
        /\ lines[1] = MonthTitle(month.start)
        /\ \A i \in 1..wc : lines[i + 1] = FormatWeek(weeks[i])
        /\ \A i \in (wc + 2)..7 : lines[i] = Spaces(22)
        /\ \A i \in 1..7 : Len(lines[i]) = 22

(* C16: every month of dates(y).by_month() has 4 to 6 weeks by by_week(),  *)
(* so 6 - week_count stays at 0 or above and layout_month yields 7 lines:  *)
(* the title, the weeks, the padding; so in the calendar each row of       *)
(* months is transposed into exactly 7 chunks, chunk l of row r holding    *)
(* line l of every month of the row, and no call panics.  The chunk looked *)
(* at is the one pulled last, in every state.                              *)
C16_SevenLinesPerMonth ==
    LET y == input.year
        mpl == input.months_per_line
        k == Len(hist)
        r == ((k - 1) \div 7) + 1
        l == ((k - 1) % 7) + 1
    IN  /\ ~panic
        /\ hist = <<>> =>
              /\ Collect(ByMonth(Dates(y)), <<>>).items
                     = [m \in 1..12 |-> MonthRange(y, m)]
              /\ \A m \in 1..12 : SevenLines(MonthRange(y, m))
        /\ (mpl > 0 /\ k > 0) =>
              IF hist[k] = None
              THEN k = 7 * Ceil(12, mpl) + 1
              ELSE /\ k <= 7 * Ceil(12, mpl)
                   /\ Unwrap(hist[k]) =
                        VecIter([i \in 1..Min({mpl, 12 - (r - 1) * mpl}) |->
                                   LayoutLines(MonthRange(y, (r - 1) * mpl + i))[l]])

(* The calendar of 2010, three months per line, is written: 28 chunks of   *)
(* three lines; February has four weeks and May has six.                   *)
C16_Witness ==
    /\ iter.type = "ChainAll"
    /\ input.year = 2010
    /\ input.months_per_line = 3
    /\ Ended(hist)
    /\ Len(Values(hist)) = 28
    /\ \A i \in 1..28 : Len(Values(hist)[i].rest) = 3
    /\ WeekCount(MonthRange(2010, 2)) = 4
    /\ WeekCount(MonthRange(2010, 5)) = 6

============================================================================
